---- MODULE Spec2Model ----
(***************************************************************************)
(* Model of the chunk-construction pipeline of characterAI:                *)
(*   src/src/data/preprocessing.py  DataPreprocessor (_clean_text,         *)
(*                                  process_novel)                         *)
(*   src/src/data/chunking.py       DocumentChunker (create_chunks,        *)
(*                                  chunk_chapters)                        *)
(* Text is a sequence of characters.  Multi-character literals the code    *)
(* searches for ("Chapter", "Contents", the code fence, the "json\n" tag) *)
(* are single symbols of the alphabet; a JSON object of an oracle answer   *)
(* is a single symbol whose fields are given by ObjectOf.                  *)
(***************************************************************************)
EXTENDS Integers, Sequences, FiniteSets, TLC

VARIABLES
    cl_input,      \* _clean_text: the text first handed to it
    cl_hist,       \* _clean_text: results of its successive applications
    nv_pc,         \* process_novel: "idle" | "returned" | "raised"
    nv_file,       \* process_novel: content of the file read (if readable)
    nv_chapters,   \* process_novel: the returned chapter list
    chapters,      \* chunk_chapters: its argument
    pc,            \* chunk_chapters: "loop" | "waiting" | "responded" | "done"
    idx,           \* chunk_chapters: number of chapters fully processed
    calls,         \* generate_content invocations so far (chapter numbers)
    outstanding,   \* generate_content requests not yet answered
    outcome,       \* the oracle's answer to the current request
    outcomes,      \* the answers the chapters processed so far received
    data,          \* create_chunks: what json.loads gave in the last call
    ret,           \* create_chunks: what the last call returned
    all_chunks,    \* chunk_chapters: accumulator / return value
    raised         \* chunk_chapters: an exception escaped to the caller

vars == <<cl_input, cl_hist, nv_pc, nv_file, nv_chapters, chapters, pc, idx,
          calls, outstanding, outcome, outcomes, data, ret, all_chunks, raised>>
cleanVars == <<cl_input, cl_hist>>
novelVars == <<nv_pc, nv_file, nv_chapters>>
chunkVars == <<chapters, pc, idx, calls, outstanding, outcome, outcomes,
               data, ret, all_chunks, raised>>

(***************************************************************************)
(* Bounds of the model.                                                    *)
(***************************************************************************)
MaxTextLen == 5
MaxApplications == 3
MaxPhrases == 4
MaxChapters == 3
MaxProse == 2
MaxFenced == 2
MaxRecords == 3

(***************************************************************************)
(* Generic sequence helpers.                                               *)
(***************************************************************************)
SeqsUpTo(S, n) == UNION { [1..k -> S] : k \in 0..n }

RECURSIVE Flatten(_)
Flatten(ss) == IF ss = <<>> THEN <<>> ELSE Head(ss) \o Flatten(Tail(ss))

\* s[i..] as Python's s[i:] with 0-based i, 0 <= i <= len(s)
From(s, i) == SubSeq(s, i + 1, Len(s))
\* Python's s[i:j] for 0 <= i, 0 <= j (empty when j <= i)
Slice(s, i, j) == SubSeq(s, i + 1, IF j > Len(s) THEN Len(s) ELSE j)

\* Python's s.find(c, start) for a one-symbol needle: 0-based index or -1
Find(s, c, start) ==
    LET hits == { i \in start..(Len(s) - 1) : s[i + 1] = c }
    IN  IF hits = {} THEN -1 ELSE CHOOSE i \in hits : \A j \in hits : i <= j
\* Python's s.rfind(c)
RFind(s, c) ==
    LET hits == { i \in 0..(Len(s) - 1) : s[i + 1] = c }
    IN  IF hits = {} THEN -1 ELSE CHOOSE i \in hits : \A j \in hits : j <= i

Contains(s, c) == \E i \in 1..Len(s) : s[i] = c

(***************************************************************************)
(* Characters.  "\n" is the line break and " " the space; both are matched *)
(* by \s and removed by str.strip().                                       *)
(***************************************************************************)
Whitespace == {" ", "\n"}
\* the character class of clean_patterns['quotes']
QuoteClass == {"\""}

RECURSIVE LStrip(_)
LStrip(s) == IF s # <<>> /\ Head(s) \in Whitespace THEN LStrip(Tail(s)) ELSE s
RECURSIVE RStrip(_)
RStrip(s) ==
    IF s # <<>> /\ s[Len(s)] \in Whitespace
    THEN RStrip(SubSeq(s, 1, Len(s) - 1)) ELSE s
\* str.strip()
Strip(s) == RStrip(LStrip(s))

\* a substitution of r'\s\s' instead of r'\s+': pairs, not runs
RECURSIVE SubWhitespacePairs(_)
SubWhitespacePairs(s) ==
    IF s = <<>> THEN <<>>
    ELSE IF Len(s) >= 2 /\ s[1] \in Whitespace /\ s[2] \in Whitespace
         THEN <<" ">> \o SubWhitespacePairs(Tail(Tail(s)))
         ELSE <<Head(s)>> \o SubWhitespacePairs(Tail(s))

\* clean_patterns['whitespace'].sub(' ', text): every maximal run of \s -> ' '
RECURSIVE SubWhitespace(_)
SubWhitespace(s) ==
    IF s = <<>> THEN <<>>
    ELSE IF Head(s) \in Whitespace
         THEN <<" ">> \o SubWhitespace(LStrip(s))
         ELSE <<Head(s)>> \o SubWhitespace(Tail(s))

\* clean_patterns['quotes'].sub('"', text)
SubQuotes(s) == [i \in 1..Len(s) |-> IF s[i] \in QuoteClass THEN "\"" ELSE s[i]]

\* DataPreprocessor._clean_text
clean_text(text) == Strip(SubQuotes(SubWhitespace(text)))

(***************************************************************************)
(* _clean_text applied repeatedly to one text.                             *)
(***************************************************************************)
TextChars == {" ", "\n", "a", "\"", "q"}    \* "q": a typographic quote glyph
Texts == SeqsUpTo(TextChars, MaxTextLen)

CleanIdle == cl_input = <<>> /\ cl_hist = <<>>

CleanText ==
    /\ Len(cl_hist) < MaxApplications
    /\ cl_hist' = Append(cl_hist,
                         clean_text(IF cl_hist = <<>> THEN cl_input
                                    ELSE cl_hist[Len(cl_hist)]))
    /\ UNCHANGED cl_input

(***************************************************************************)
(* process_novel.  "C" is the literal "Chapter", "K" the literal           *)
(* "Contents", "d" a digit, "a" any other character.                       *)
(***************************************************************************)
\* ^ under re.MULTILINE at 0-based position p
LineStart(s, p) == p = 0 \/ s[p] = "\n"

\* clean_patterns['headers'] = r'^.*?Contents.*?\n' (MULTILINE | DOTALL) tried
\* at position p: the 0-based end of the match, or -1.  Both .*? are lazy and
\* cross line breaks: the first "Contents" at or after p, then the first
\* line break after it.
HeaderMatchEnd(s, p) ==
    IF ~LineStart(s, p) THEN -1
    ELSE LET k == Find(s, "K", p)
         IN  IF k = -1 THEN -1
             ELSE LET n == Find(s, "\n", k + 1)
                  IN  IF n = -1 THEN -1 ELSE n + 1

\* clean_patterns['headers'].sub('', text) scanning from position pos
RECURSIVE HeadersSubFrom(_, _)
HeadersSubFrom(s, pos) ==
    LET starts == { p \in pos..Len(s) : HeaderMatchEnd(s, p) # -1 }
    IN  IF starts = {} THEN From(s, pos)
        ELSE LET p == CHOOSE q \in starts : \A r \in starts : q <= r
             IN  Slice(s, pos, p) \o HeadersSubFrom(s, HeaderMatchEnd(s, p))
HeadersSub(s) == HeadersSubFrom(s, 0)

\* length of the longest prefix of s[q..] made of characters of set S
RECURSIVE RunLen(_, _, _)
RunLen(s, q, S) ==
    IF q < Len(s) /\ s[q + 1] \in S THEN 1 + RunLen(s, q + 1, S) ELSE 0

\* clean_patterns['chapter'] = r'Chapter \d+[:\s]*(.*?)\n' tried at position p.
\* \d+ and [:\s]* are greedy and give back characters on failure; (.*?) is
\* lazy and does not cross a line break.  Result: [ok, start, tstart, tend,
\* end]: match.start() = start, group(1) = s[tstart:tend], match.end() = end.
NoMatch == [ok |-> FALSE, start |-> 0, tstart |-> 0, tend |-> 0, end |-> 0]
ChapterMatchAt(s, p) ==
    IF ~(p + 2 < Len(s) /\ s[p + 1] = "C" /\ s[p + 2] = " ") THEN NoMatch
    ELSE LET D == RunLen(s, p + 2, {"d"})
             q == p + 2 + D
             L == RunLen(s, q, {":"} \cup Whitespace)
             \* lengths of [:\s]* after which (.*?)\n can still match
             js == { j \in 0..L : Find(s, "\n", q + j) # -1 }
         IN  IF D = 0 \/ js = {} THEN NoMatch
             ELSE LET j == CHOOSE a \in js : \A b \in js : b <= a
                      n == Find(s, "\n", q + j)
                  IN  [ok |-> TRUE, start |-> p, tstart |-> q + j, tend |-> n,
                       end |-> n + 1]

\* clean_patterns['chapter'].finditer(text) from position pos: the matches in
\* order, each search resuming at the end of the previous match
RECURSIVE FindIterFrom(_, _)
FindIterFrom(s, pos) ==
    LET starts == { p \in pos..Len(s) : ChapterMatchAt(s, p).ok }
    IN  IF starts = {} THEN <<>>
        ELSE LET p == CHOOSE q \in starts : \A r \in starts : q <= r
                 m == ChapterMatchAt(s, p)
             IN  <<m>> \o FindIterFrom(s, m.end)
FindIter(s) == FindIterFrom(s, 0)

\* text.find('Chapter', start_pos)
NextChapter(text, start_pos) == Find(text, "C", start_pos)

\* the body of the loop of process_novel for the i-th match
ChapterOf(text, i, match) ==
    LET start_pos == match.end
        found == NextChapter(text, start_pos)
        next_match == IF found = -1 THEN Len(text) ELSE found
        chapter_text == clean_text(Strip(Slice(text, start_pos, next_match)))
    IN  [chapter_number |-> i,
         title |-> Strip(Slice(text, match.tstart, match.tend)),
         text |-> chapter_text,
         length |-> Len(chapter_text)]

\* the text the loop of process_novel works on
HeaderlessText(file) == HeadersSub(file)

\* process_novel on a readable file
process_novel(file) ==
    LET text == HeaderlessText(file)
        ms == FindIter(text)
    IN  [i \in 1..Len(ms) |-> ChapterOf(text, i, ms[i])]

\* a delimiter line without and with a title, and single characters
Phrases ==
    { <<"C", " ", "d", "\n">>, <<"C", " ", "d", ":", " ", "a", "\n">>,
      <<"C">>, <<" ">>, <<"d">>, <<":">>, <<"\n">>, <<"a">>, <<"K">> }
Documents == { Flatten(ps) : ps \in SeqsUpTo(Phrases, MaxPhrases) }

NovelIdle == nv_pc = "idle" /\ nv_file = <<>> /\ nv_chapters = <<>>

\* process_novel returns
ProcessNovel ==
    /\ nv_pc = "idle"
    /\ \E file \in Documents :
         /\ nv_file' = file
         /\ nv_chapters' = process_novel(file)
    /\ nv_pc' = "returned"

\* open() fails: the exception is logged and re-raised
ProcessNovelUnreadable ==
    /\ nv_pc = "idle"
    /\ nv_pc' = "raised"
    /\ UNCHANGED <<nv_file, nv_chapters>>

(***************************************************************************)
(* Oracle answers.  A response text is a sequence of symbols: "F" is the   *)
(* code fence (three backquotes), "j" the tag "json\n", "[" "]" "," the    *)
(* JSON punctuation, "x"                                                   *)
(* any other prose character, "N" a JSON number, and "A" "B" "D" "T" JSON  *)
(* objects with the fields ObjectOf gives them.                            *)
(***************************************************************************)
Str(s) == [type |-> "str", chars |-> s]
Num == [type |-> "num", chars |-> <<>>]

ObjectTokens == {"A", "B", "D", "T"}
ObjectOf(tok) ==
    CASE tok = "A" -> [keys |-> {"text", "summary"},
                       text |-> Str(<<" ", "a", "b", "\n">>),
                       summary |-> Str(<<"s", " ">>)]
      [] tok = "B" -> [keys |-> {"text", "summary"},
                       text |-> Str(<<"c">>), summary |-> Str(<<"t">>)]
      [] tok = "D" -> [keys |-> {"text"},                 \* no summary
                       text |-> Str(<<"d", "e">>), summary |-> Num]
      [] tok = "T" -> [keys |-> {"text", "summary"},      \* text is a number
                       text |-> Num, summary |-> Str(<<"u">>)]

\* parsed JSON values
JObj(tok) == [kind |-> "obj", tok |-> tok, items |-> <<>>]
JNum == [kind |-> "num", tok |-> "N", items |-> <<>>]
JArr(items) == [kind |-> "arr", tok |-> "[", items |-> items]

ParseFail == [ok |-> FALSE, val |-> JNum, rest |-> <<>>]
ParseOk(v, rest) == [ok |-> TRUE, val |-> v, rest |-> rest]

\* the JSON grammar over symbols: value, then the elements of an array
RECURSIVE ParseValue(_), ParseItems(_, _)
ParseValue(s0) ==
    LET s == LStrip(s0)
    IN  IF s = <<>> THEN ParseFail
        ELSE IF Head(s) \in ObjectTokens THEN ParseOk(JObj(Head(s)), Tail(s))
        ELSE IF Head(s) = "N" THEN ParseOk(JNum, Tail(s))
        ELSE IF Head(s) = "["
             THEN LET t == LStrip(Tail(s))
                  IN  IF t # <<>> /\ Head(t) = "]"
                      THEN ParseOk(JArr(<<>>), Tail(t))
                      ELSE ParseItems(t, <<>>)
        ELSE ParseFail
ParseItems(s, acc) ==
    LET v == ParseValue(s)
        t == LStrip(v.rest)
    IN  IF ~v.ok \/ t = <<>> THEN ParseFail
        ELSE IF Head(t) = "," THEN ParseItems(Tail(t), Append(acc, v.val))
        ELSE IF Head(t) = "]" THEN ParseOk(JArr(Append(acc, v.val)), Tail(t))
        ELSE ParseFail

\* json.loads(s): [ok, val]; ok = FALSE is json.JSONDecodeError
JsonLoads(s) ==
    LET v == ParseValue(s)
    IN  IF v.ok /\ LStrip(v.rest) = <<>> THEN [ok |-> TRUE, val |-> v.val]
        ELSE [ok |-> FALSE, val |-> JNum]

\* str.split(fence): the parts between the fences
RECURSIVE Split(_, _)
Split(s, sep) ==
    LET k == Find(s, sep, 0)
    IN  IF k = -1 THEN <<s>>
        ELSE <<Slice(s, 0, k)>> \o Split(From(s, k + 1), sep)

\* str.replace('json\n', '')
RemoveTag(s) == SelectSeq(s, LAMBDA c : c # "j")

\* Python's s[a:b] for a >= -1, b >= 0: a negative start counts from the end
PySlice(s, a, b) ==
    LET a0 == IF a < 0 THEN (IF Len(s) + a < 0 THEN 0 ELSE Len(s) + a) ELSE a
    IN  Slice(s, a0, b)

HasBrackets(part) == Contains(part, "[") /\ Contains(part, "]")

\* chunking.py:64-70: the first part between fences holding both brackets
SelectPart(json_str) ==
    IF Contains(json_str, "F")
    THEN LET parts == Split(json_str, "F")
             hits == { i \in 1..Len(parts) : HasBrackets(parts[i]) }
         IN  IF hits = {} THEN json_str
             ELSE Strip(parts[CHOOSE i \in hits : \A j \in hits : i <= j])
    ELSE json_str

\* chunking.py:61-76: the string handed to json.loads
ExtractJson(text) ==
    LET selected == SelectPart(Strip(text))
        untagged == RemoveTag(selected)
    IN  PySlice(untagged, Find(untagged, "[", 0), RFind(untagged, "]") + 1)

(***************************************************************************)
(* create_chunks after generate_content has answered.                      *)
(***************************************************************************)
\* an answer of the oracle: an exception, or a response with its text
Exception == [kind |-> "exception", text |-> <<>>]
Response(text) == [kind |-> "text", text |-> text]

\* chunking.py:92: the test that makes the loop skip an element
IsSkipped(chunk_data) ==
    \/ chunk_data.kind # "obj"
    \/ "text" \notin ObjectOf(chunk_data.tok).keys
    \/ "summary" \notin ObjectOf(chunk_data.tok).keys

\* an end offset that counts the last character twice
EndPosOffByOne(start_pos, chunk_text) == start_pos + Len(chunk_text) + 1
\* chunking.py:97
EndPos(start_pos, chunk_text) == start_pos + Len(chunk_text)

\* flags computed against the position among the elements, 1-based
MakeChunkOneBased(chapter, chunk_data, i, start_pos, n) ==
    LET obj == ObjectOf(chunk_data.tok)
        chunk_text == Strip(obj.text.chars)
    IN  [text |-> chunk_text,
         summary |-> Strip(obj.summary.chars),
         metadata |-> [chapter_number |-> chapter.chapter_number,
                       chapter_title |-> chapter.title,
                       chunk_start |-> start_pos,
                       chunk_end |-> EndPos(start_pos, chunk_text),
                       chunk_index |-> i,
                       is_first_chunk |-> (i = 1),
                       is_last_chunk |-> (i = n)]]
\* chunking.py:96-111: the chunk of element i (0-based) of n elements
MakeChunk(chapter, chunk_data, i, start_pos, n) ==
    LET obj == ObjectOf(chunk_data.tok)
        chunk_text == Strip(obj.text.chars)
    IN  [text |-> chunk_text,
         summary |-> Strip(obj.summary.chars),
         metadata |-> [chapter_number |-> chapter.chapter_number,
                       chapter_title |-> chapter.title,
                       chunk_start |-> start_pos,
                       chunk_end |-> EndPos(start_pos, chunk_text),
                       chunk_index |-> i,
                       is_first_chunk |-> (i = 0),
                       is_last_chunk |-> (i = n - 1)]]

\* chunking.py:90-113: the loop from element i on; exc = "AttributeError"
\* when .strip() is called on a value that is no string
RECURSIVE Assemble(_, _, _, _, _)
Assemble(chapter, chunks_data, i, start_pos, chunks) ==
    IF i >= Len(chunks_data) THEN [exc |-> "none", chunks |-> chunks]
    ELSE LET chunk_data == chunks_data[i + 1]
         IN  IF IsSkipped(chunk_data)
             THEN Assemble(chapter, chunks_data, i + 1, start_pos, chunks)
             ELSE LET obj == ObjectOf(chunk_data.tok)
                  IN  IF obj.text.type # "str" \/ obj.summary.type # "str"
                      THEN [exc |-> "AttributeError", chunks |-> <<>>]
                      ELSE LET chunk == MakeChunk(chapter, chunk_data, i,
                                                  start_pos, Len(chunks_data))
                           IN  Assemble(chapter, chunks_data, i + 1,
                                        chunk.metadata.chunk_end,
                                        Append(chunks, chunk))

NoData == [ok |-> FALSE, val |-> JNum]

\* chunking.py:56-119, the body of the try: [exc, data, chunks].  exc is the
\* exception raised inside the try ("none": the body returned chunks).
TryBody(chapter, answer) ==
    IF answer.kind = "exception"
    THEN [exc |-> "Exception", data |-> NoData, chunks |-> <<>>]
    ELSE IF answer.text = <<>>
    THEN [exc |-> "ValueError", data |-> NoData, chunks |-> <<>>]
    ELSE LET loaded == JsonLoads(ExtractJson(answer.text))
         IN  IF ~loaded.ok           \* except json.JSONDecodeError: return []
             THEN [exc |-> "none", data |-> NoData, chunks |-> <<>>]
             ELSE IF loaded.val.kind # "arr"   \* enumerate() of a non-list
             THEN [exc |-> "TypeError", data |-> loaded, chunks |-> <<>>]
             ELSE LET r == Assemble(chapter, loaded.val.items, 0, 0, <<>>)
                  IN  IF r.exc # "none"
                      THEN [exc |-> r.exc, data |-> loaded, chunks |-> <<>>]
                      ELSE IF r.chunks = <<>>
                      THEN [exc |-> "ValueError", data |-> loaded,
                            chunks |-> <<>>]
                      ELSE [exc |-> "none", data |-> loaded,
                            chunks |-> r.chunks]

\* a handler that logs and re-raises, as process_novel's does
HandlerReraises(body) ==
    [raised |-> body.exc # "none", data |-> body.data, chunks |-> body.chunks]
\* chunking.py:121-123: except Exception: log, return []
Handler(body) ==
    [raised |-> FALSE, data |-> body.data,
     chunks |-> IF body.exc # "none" THEN <<>> ELSE body.chunks]

\* DocumentChunker.create_chunks, given the oracle's answer
create_chunks(chapter, answer) == Handler(TryBody(chapter, answer))

(***************************************************************************)
(* The answers the oracle may give.                                        *)
(***************************************************************************)
RECURSIVE Join(_)
Join(elems) ==
    IF elems = <<>> THEN <<>>
    ELSE IF Len(elems) = 1 THEN elems
    ELSE <<Head(elems), ",">> \o Join(Tail(elems))
ArrayText(elems) == <<"[">> \o Join(elems) \o <<"]">>

ElemTokens == ObjectTokens \cup {"N"}
ProseChars == {"x", "[", "]"}
\* arrays of up to n elements, as the oracle is asked to answer
Arrays(n) == { ArrayText(e) : e \in SeqsUpTo(ElemTokens, n) }
\* an array bare, fenced, or fenced with a language tag; or nothing
Cores ==
    Arrays(MaxFenced)
    \cup { <<"F">> \o a \o <<"F">> : a \in Arrays(MaxFenced) }
    \cup { <<"F", "j">> \o a \o <<"\n", "F">> : a \in Arrays(MaxFenced) }
    \cup { <<>> }
Posts == { <<>>, <<"x">>, <<"]">>, <<" ">> }
\* prose around a short array, and longer arrays without prose
ResponseTexts ==
    { pre \o core \o post :
        pre \in SeqsUpTo(ProseChars, MaxProse), core \in Cores, post \in Posts }
    \cup Arrays(MaxRecords)
AllAnswers == {Exception} \cup { Response(t) : t \in ResponseTexts }

\* one answer of each kind, for runs over several chapters
FewAnswers ==
    { Exception,
      Response(<<>>),
      Response(<<"x", "x">>),
      Response(<<"[", "x", "]">>),
      Response(<<"[", "D", "]">>),
      Response(<<"[", "A", ",", "T", "]">>),
      Response(<<"[", "B", "]">>),
      Response(<<"[", "A", ",", "D", ",", "B", "]">>),
      Response(<<"x", "F", "j", "[", "A", ",", "B", "]", "\n", "F", "x">>) }

(***************************************************************************)
(* chunk_chapters.                                                         *)
(***************************************************************************)
ChaptersOf(n) ==
    [i \in 1..n |-> [chapter_number |-> i, title |-> <<"t">>,
                     text |-> <<"a">>, length |-> 1]]

ChunkIdle ==
    /\ chapters = <<>> /\ pc = "done" /\ idx = 0 /\ calls = <<>>
    /\ outstanding = 0 /\ outcome = Exception /\ outcomes = <<>>
    /\ data = NoData /\ ret = <<>> /\ all_chunks = <<>> /\ raised = FALSE

ChunkStart(n) ==
    /\ chapters = ChaptersOf(n) /\ pc = "loop" /\ idx = 0 /\ calls = <<>>
    /\ outstanding = 0 /\ outcome = Exception /\ outcomes = <<>>
    /\ data = NoData /\ ret = <<>> /\ all_chunks = <<>> /\ raised = FALSE

\* chunking.py:135-137 and 56: the next chapter's create_chunks builds the
\* prompt and calls generate_content
CallOracle ==
    /\ pc = "loop" /\ idx < Len(chapters)
    /\ calls' = Append(calls, chapters[idx + 1].chapter_number)
    /\ outstanding' = outstanding + 1
    /\ pc' = "waiting"
    /\ UNCHANGED <<chapters, idx, outcome, outcomes, data, ret, all_chunks,
                   raised>>

\* generate_content returns or raises
OracleAnswers(answers) ==
    /\ pc = "waiting"
    /\ \E a \in answers : outcome' = a
    /\ outstanding' = outstanding - 1
    /\ pc' = "responded"
    /\ UNCHANGED <<chapters, idx, calls, outcomes, data, ret, all_chunks,
                   raised>>

\* a loop that asks again for a chapter that gave no chunks
HandleAnswerRetry ==
    /\ pc = "responded"
    /\ LET r == create_chunks(chapters[idx + 1], outcome)
       IN  /\ data' = r.data
           /\ ret' = r.chunks
           /\ all_chunks' = all_chunks \o r.chunks
           /\ idx' = IF r.chunks = <<>> /\ Len(calls) < 2 * Len(chapters)
                     THEN idx ELSE idx + 1
           /\ outcomes' = IF idx' = idx THEN outcomes
                          ELSE Append(outcomes, outcome)
           /\ raised' = FALSE
           /\ pc' = "loop"
    /\ UNCHANGED <<chapters, calls, outstanding, outcome>>
\* a loop that assigns the chapter's chunks instead of extending the list
HandleAnswerAssign ==
    /\ pc = "responded"
    /\ LET r == create_chunks(chapters[idx + 1], outcome)
       IN  /\ data' = r.data
           /\ ret' = r.chunks
           /\ all_chunks' = r.chunks
           /\ idx' = idx + 1
           /\ outcomes' = Append(outcomes, outcome)
           /\ raised' = FALSE
           /\ pc' = "loop"
    /\ UNCHANGED <<chapters, calls, outstanding, outcome>>
\* chunking.py:57-123 and 137-138: the rest of create_chunks, then extend
HandleAnswer ==
    /\ pc = "responded"
    /\ LET r == create_chunks(chapters[idx + 1], outcome)
       IN  /\ data' = r.data
           /\ ret' = r.chunks
           /\ raised' = r.raised
           /\ outcomes' = Append(outcomes, outcome)
           /\ IF r.raised
              THEN pc' = "raised" /\ UNCHANGED <<all_chunks, idx>>
              ELSE /\ all_chunks' = all_chunks \o r.chunks
                   /\ idx' = idx + 1
                   /\ pc' = "loop"
    /\ UNCHANGED <<chapters, calls, outstanding, outcome>>

\* chunking.py:139
Return ==
    /\ pc = "loop" /\ idx = Len(chapters)
    /\ pc' = "done"
    /\ UNCHANGED <<chapters, idx, calls, outstanding, outcome, outcomes, data,
                   ret, all_chunks, raised>>

(***************************************************************************)
(* Specifications.                                                         *)
(***************************************************************************)
\* chunk_chapters over up to MaxChapters chapters
Init ==
    /\ CleanIdle /\ NovelIdle
    /\ \E n \in 0..MaxChapters : ChunkStart(n)
Next ==
    \/ CallOracle /\ UNCHANGED <<cleanVars, novelVars>>
    \/ OracleAnswers(FewAnswers) /\ UNCHANGED <<cleanVars, novelVars>>
    \/ HandleAnswer /\ UNCHANGED <<cleanVars, novelVars>>
    \/ Return /\ UNCHANGED <<cleanVars, novelVars>>
Spec == Init /\ [][Next]_vars

\* create_chunks on one chapter, over all modelled answers
InitChunk == CleanIdle /\ NovelIdle /\ ChunkStart(1)
NextChunk ==
    \/ CallOracle /\ UNCHANGED <<cleanVars, novelVars>>
    \/ OracleAnswers(AllAnswers) /\ UNCHANGED <<cleanVars, novelVars>>
    \/ HandleAnswer /\ UNCHANGED <<cleanVars, novelVars>>
    \/ Return /\ UNCHANGED <<cleanVars, novelVars>>
SpecChunk == InitChunk /\ [][NextChunk]_vars

\* process_novel over the modelled documents
InitNovel == CleanIdle /\ ChunkIdle /\ NovelIdle
NextNovel ==
    \/ ProcessNovel /\ UNCHANGED <<cleanVars, chunkVars>>
    \/ ProcessNovelUnreadable /\ UNCHANGED <<cleanVars, chunkVars>>
SpecNovel == InitNovel /\ [][NextNovel]_vars

\* _clean_text over the modelled texts
InitClean == NovelIdle /\ ChunkIdle /\ cl_input \in Texts /\ cl_hist = <<>>
NextClean == CleanText /\ UNCHANGED <<novelVars, chunkVars>>
SpecClean == InitClean /\ [][NextClean]_vars

(***************************************************************************)
(* Properties.                                                             *)
(***************************************************************************)
\* a record as the specification requires it: an object with string-typed
\* text and summary
IsValidRecord(e) ==
    /\ e.kind = "obj"
    /\ {"text", "summary"} \subseteq ObjectOf(e.tok).keys
    /\ ObjectOf(e.tok).text.type = "str"
    /\ ObjectOf(e.tok).summary.type = "str"

\* the last call of create_chunks has returned
AnswerHandled == outcomes # <<>>
\* the elements of the array json.loads gave in the last call
Items == IF data.ok /\ data.val.kind = "arr" THEN data.val.items ELSE <<>>
ChunkIndexes == [i \in 1..Len(ret) |-> ret[i].metadata.chunk_index]

\* C1: the first returned chunk starts at 0, every chunk ends at its start
\* plus the length of its trimmed text, and every later chunk starts where
\* the chunk returned before it ends, also across dropped records.
C1_OffsetsContiguous ==
    /\ ret # <<>> => ret[1].metadata.chunk_start = 0
    /\ \A i \in 1..Len(ret) :
         /\ ret[i].metadata.chunk_end
              = ret[i].metadata.chunk_start + Len(ret[i].text)
         /\ ret[i].text
              = Strip(ObjectOf(Items[ChunkIndexes[i] + 1].tok).text.chars)
    /\ \A i \in 2..Len(ret) :
         ret[i].metadata.chunk_start = ret[i - 1].metadata.chunk_end
\* two chunks returned with an invalid record dropped between them
C1_Witness ==
    /\ Len(ret) >= 2
    /\ ret[2].metadata.chunk_index > ret[1].metadata.chunk_index + 1
    /\ ret[2].metadata.chunk_start = Len(ret[1].text)
    /\ ret[2].metadata.chunk_start > 0

\* C2: every element that is not an object with string-typed text and
\* summary is skipped on its own, and the number of returned chunks is the
\* number of valid elements of the array.
C2_InvalidSkippedIndividually ==
    (AnswerHandled /\ data.ok)
        => Len(ret) = Cardinality({ i \in 1..Len(Items) :
                                      IsValidRecord(Items[i]) })
\* what the code does keep: when every element the test of line 92 lets
\* through has string fields, each of them yields its chunk
C2_SkippedWhenFieldsAreStrings ==
    (AnswerHandled /\ data.ok
       /\ \A i \in 1..Len(Items) :
             IsSkipped(Items[i]) \/ IsValidRecord(Items[i]))
        => Len(ret) = Cardinality({ i \in 1..Len(Items) :
                                      IsValidRecord(Items[i]) })

\* the answers C3 lists
FailedAnswer ==
    \/ outcome.kind = "exception"
    \/ outcome.text = <<>>
    \/ ~Contains(outcome.text, "[") \/ ~Contains(outcome.text, "]")
    \/ ~data.ok
    \/ \A i \in 1..Len(Items) : ~IsValidRecord(Items[i])
\* C3: whatever the oracle does, create_chunks does not raise; after an
\* exception, an empty response, a response without brackets, one whose
\* bracketed substring is no JSON, or an array with no valid record, it
\* returns the empty list.
C3_FailuresYieldEmpty ==
    /\ raised = FALSE /\ pc # "raised"
    /\ (AnswerHandled /\ FailedAnswer) => ret = <<>>
\* an array was parsed, it had elements, none was valid, nothing returned
C3_Witness ==
    /\ AnswerHandled /\ data.ok /\ Items # <<>>
    /\ \A i \in 1..Len(Items) : ~IsValidRecord(Items[i])
    /\ ret = <<>> /\ ~raised

\* the content of the first fenced block of a response text
FencedBlock(text) == RemoveTag(Split(text, "F")[2])
\* the text holds a fenced block that is a JSON array
HasFencedArray(text) ==
    /\ Len(Split(text, "F")) >= 3
    /\ JsonLoads(FencedBlock(text)).ok
    /\ JsonLoads(FencedBlock(text)).val.kind = "arr"
\* C4: when the response holds a valid JSON array between fences, the
\* records create_chunks uses are the elements of that array, whatever
\* prose surrounds the fences.
C4_FencedArrayExtracted ==
    (AnswerHandled /\ outcome.kind = "text" /\ HasFencedArray(outcome.text))
        => /\ data.ok
           /\ data.val = JsonLoads(FencedBlock(outcome.text)).val
\* what the code does keep: the same, when the prose before the first fence
\* does not hold both brackets
C4_WhenProseBeforeHasNoBrackets ==
    (AnswerHandled /\ outcome.kind = "text" /\ HasFencedArray(outcome.text)
       /\ ~HasBrackets(Split(outcome.text, "F")[1]))
        => /\ data.ok
           /\ data.val = JsonLoads(FencedBlock(outcome.text)).val

\* an answer that fails whatever the parser does
OracleFailed(a) ==
    \/ a.kind = "exception" \/ a.text = <<>>
    \/ ~Contains(a.text, "[") \/ ~Contains(a.text, "]")
ChunksOfChapter(n) ==
    SelectSeq(all_chunks, LAMBDA c : c.metadata.chapter_number = n)
\* C5: chunk_chapters does not raise, and what it has accumulated is the
\* concatenation, in chapter order, of what create_chunks gives for each
\* chapter alone; a chapter whose answer failed contributes nothing.
C5_ChaptersIsolated ==
    /\ raised = FALSE /\ pc # "raised"
    /\ pc \in {"loop", "done"} =>
         /\ Len(outcomes) = idx
         /\ all_chunks =
              Flatten([i \in 1..idx |->
                         create_chunks(chapters[i], outcomes[i]).chunks])
         /\ \A i \in 1..idx :
              /\ OracleFailed(outcomes[i])
                   => ChunksOfChapter(chapters[i].chapter_number) = <<>>
              /\ ChunksOfChapter(chapters[i].chapter_number)
                   = create_chunks(chapters[i], outcomes[i]).chunks
    /\ pc = "done" => idx = Len(chapters)
\* a run of three chapters returned: the second failed, the others did not
C5_Witness ==
    /\ pc = "done" /\ Len(chapters) >= 3
    /\ outcomes[2].kind = "exception"
    /\ ChunksOfChapter(1) # <<>> /\ ChunksOfChapter(2) = <<>>
    /\ ChunksOfChapter(3) # <<>>

\* C6: generate_content is invoked once per chapter, in chapter order, never
\* again for a chapter that failed; the call for the next chapter starts
\* only when the previous chapter is finished; at most one request is
\* outstanding.
C6_OneCallPerChapterInOrder ==
    /\ outstanding \in {0, 1}
    /\ outstanding = 1 <=> pc = "waiting"
    /\ Len(calls) <= Len(chapters)
    /\ \A i \in 1..Len(calls) : calls[i] = chapters[i].chapter_number
    /\ Len(calls) = idx + (IF pc \in {"waiting", "responded"} THEN 1 ELSE 0)
    /\ pc = "done" => Len(calls) = Len(chapters)
\* a run returned in which a chapter failed and a later one was still asked
C6_Witness ==
    /\ pc = "done" /\ Len(chapters) >= 2
    /\ OracleFailed(outcomes[1]) /\ ~OracleFailed(outcomes[2])
    /\ calls = <<1, 2>> \o SubSeq(calls, 3, Len(calls))

\* the matches of the chapter pattern in the file as read
FileMatches == FindIter(nv_file)
\* C7: a readable document with k matches of the chapter pattern gives k
\* chapters numbered 1..k; none gives the empty list.
C7_OneChapterPerMatch ==
    nv_pc = "returned" =>
        /\ Len(nv_chapters) = Len(FileMatches)
        /\ \A i \in 1..Len(nv_chapters) : nv_chapters[i].chapter_number = i
\* what the code does keep: the same, counted in the text that is left
\* after the substitution of the headers pattern
C7_OneChapterPerMatchAfterHeaders ==
    nv_pc = "returned" =>
        /\ Len(nv_chapters) = Len(FindIter(HeadersSub(nv_file)))
        /\ \A i \in 1..Len(nv_chapters) : nv_chapters[i].chapter_number = i

\* C8: _clean_text applied to its own result changes nothing, and its
\* result is no longer than its argument.
C8_CleanIdempotentNotLonger ==
    /\ Len(cl_hist) >= 1 => Len(cl_hist[1]) <= Len(cl_input)
    /\ \A i \in 2..Len(cl_hist) : cl_hist[i] = cl_hist[1]
\* a text with a whitespace run inside and whitespace at an end, cleaned twice
C8_Witness ==
    /\ Len(cl_hist) >= 2
    /\ cl_hist[1] # <<>>
    /\ Len(cl_hist[1]) + 2 <= Len(cl_input)
    /\ Contains(cl_hist[1], " ")

\* C9: chunk_index is the position of the chunk's record in the array the
\* oracle sent, so it increases along the returned list; is_first_chunk
\* holds exactly at position 0 and is_last_chunk exactly at the last
\* position of that array, dropped records counted.
C9_IndexAndFlagsFromOriginalArray ==
    /\ \A i \in 1..Len(ret) :
         LET m == ret[i].metadata
         IN  /\ m.chunk_index \in 0..(Len(Items) - 1)
             /\ IsValidRecord(Items[m.chunk_index + 1])
             /\ ret[i].summary
                  = Strip(ObjectOf(Items[m.chunk_index + 1].tok).summary.chars)
             /\ m.is_first_chunk <=> m.chunk_index = 0
             /\ m.is_last_chunk <=> m.chunk_index = Len(Items) - 1
    /\ \A i \in 2..Len(ret) :
         ret[i].metadata.chunk_index > ret[i - 1].metadata.chunk_index
\* chunks returned from an array whose first and last records were dropped:
\* no chunk is flagged first, none last
C9_Witness ==
    /\ ret # <<>>
    /\ ~IsValidRecord(Items[1]) /\ ~IsValidRecord(Items[Len(Items)])
    /\ \A i \in 1..Len(ret) :
         ~ret[i].metadata.is_first_chunk /\ ~ret[i].metadata.is_last_chunk

\* the slice C10 describes for the k-th match m of text
BodySlice(text, m) ==
    LET hits == { j \in m.end..(Len(text) - 1) : text[j + 1] = "C" }
        stop == IF hits = {} THEN Len(text)
                ELSE CHOOSE j \in hits : \A h \in hits : j <= h
    IN  Slice(text, m.end, stop)
\* C10: the text of the k-th returned chapter is the normalization of the
\* slice of the document from the end of its k-th delimiter match to the
\* first "Chapter" at or after it (or the end); no chapter text holds
\* "Chapter".
C10_BodyEndsAtLiteralChapter ==
    nv_pc = "returned" =>
        \A k \in 1..Len(nv_chapters) :
            /\ k <= Len(FileMatches)
            /\ nv_chapters[k].text
                 = clean_text(BodySlice(nv_file, FileMatches[k]))
            /\ ~Contains(nv_chapters[k].text, "C")
\* what the code does keep: the same, in the text that is left after the
\* substitution of the headers pattern
C10_BodyEndsAtLiteralChapterAfterHeaders ==
    nv_pc = "returned" =>
        LET text == HeadersSub(nv_file)
        IN  \A k \in 1..Len(nv_chapters) :
                /\ k <= Len(FindIter(text))
                /\ nv_chapters[k].text
                     = clean_text(BodySlice(text, FindIter(text)[k]))
                /\ nv_chapters[k].length = Len(nv_chapters[k].text)
                /\ ~Contains(nv_chapters[k].text, "C")

====
